---- MODULE Spec2Model ----
(***************************************************************************)
(* Airport ground-traffic simulation engine: Simulation.tick(),            *)
(* Simulation.quiet_tick() and SimulationDelegate.copy of simulation.py.   *)
(*                                                                         *)
(* Objects reachable from a Simulation (clock, airport, aircraft, gate     *)
(* queues, completed itineraries, analyst, state logger) live in `heap`,   *)
(* addressed by the engine's `world` reference, so that aliasing between   *)
(* an engine and its snapshot is something the model can express.          *)
(* Attributes rebound on the Simulation object itself                      *)
(* (last_schedule_time, last_schedule_exec_time, uncertainty) live in the  *)
(* engine record.  Config.params["simulator"]["test_mode"] is `test_mode`, *)
(* Config.params["uncertainty"] is `params`.                               *)
(***************************************************************************)
EXTENDS Integers, Sequences, FiniteSets, TLC

\* ------------------------------------------------------------------ bounds
NumFlights == 3
Horizon == 9
MaxEndTicks == 1
MaxCloneCalls == 1
MaxTicksAfterSnapshot == 1
MaxQuietTicks == 1

\* ------------------------------------------- configuration (Config.params)
TickDuration == 2
RescheduleCycle == 4

None == -1

FlightIds == 1..NumFlights
Gates == {"G1", "G2", "G3"}
ScenarioGates == {"G1", "G2"}
FirstGate == "G1"
RunwayStart == "R_start"
Locations == Gates \cup {"S1", "R_near", "R_start"}
Nowhere == "nowhere"
AppearTimes == {0, 1, Horizon}
ExecTimes == {1}
EngineNames == {"sim", "clone"}
Addrs == {1, 2}
NoEngine == [world |-> 0]
NoWorld == [now |-> None]

Spots == {"S1"}

\* random.random() and the values of prob_hold, in hundredths
Draws == {0, 99}
ProbHolds == {0, 50, 100}

\* The values random.gauss(mu, sigma) is sampled from; it can return mu itself
SpeedBiases == {0, 1}

VARIABLES test_mode, params, departures, heap, engines

vars == <<test_mode, params, departures, heap, engines>>

\* ------------------------------------------------------ external contracts

\* Location.is_close_to: within tolerance; R_near is a node within tolerance
\* of the runway start without being it.
IsCloseTo(a, b) == a = b \/ {a, b} = {"R_near", "R_start"}

\* utils.get_seconds_after
get_seconds_after(t, dt) == t + dt

\* Airport.is_occupied_at
is_occupied_at(w, gate) ==
    \E i \in DOMAIN w.aircrafts : IsCloseTo(w.location[w.aircrafts[i]], gate)

\* Aircraft.set_location
set_location(w, f, loc) == [w EXCEPT !.location[f] = loc]

\* Airport.add_aircraft
add_aircraft(w, f) ==
    [w EXCEPT !.aircrafts = Append(@, f), !.added[f] = @ + 1]

RECURSIVE RemoveFirst(_, _)
RemoveFirst(s, x) ==
    IF s = <<>> THEN <<>>
    ELSE IF Head(s) = x THEN Tail(s)
    ELSE <<Head(s)>> \o RemoveFirst(Tail(s), x)

\* Airport.remove_aircraft
remove_aircraft(w, f) ==
    [w EXCEPT !.aircrafts = RemoveFirst(@, f), !.removed[f] = @ + 1]

\* Airport.conflicts: pairs of distinct active aircraft at the same node
conflicts(w) ==
    {p \in (FlightIds \X FlightIds) :
        /\ p[1] < p[2]
        /\ \E i, j \in DOMAIN w.aircrafts :
              w.aircrafts[i] = p[1] /\ w.aircrafts[j] = p[2]
        /\ IsCloseTo(w.location[p[1]], w.location[p[2]])}

\* The node after loc on the taxi route of aircraft f: gate, spot, then the
\* runway end of the route, which is within tolerance of the runway start.
NextLocation(f, loc) ==
    IF loc \in Gates THEN "S1"
    ELSE IF loc = "S1" THEN (IF f % 2 = 1 THEN "R_start" ELSE "R_near")
    ELSE loc

IsActive(w, f) == \E i \in DOMAIN w.aircrafts : w.aircrafts[i] = f

\* The outcomes of Airport.tick: every active aircraft with an itinerary
\* advances one node along its route, the others stay.
PhysicsOutcomes(w) ==
    {[f \in FlightIds |->
        IF IsActive(w, f) /\ w.itinerary[f]
        THEN NextLocation(f, w.location[f])
        ELSE w.location[f]]}

\* Airport.tick
airport_tick(w, m) == [w EXCEPT !.location = m]

\* Airport.apply_schedule: the schedule gives itineraries to `sched`
apply_schedule(w, sched) ==
    [w EXCEPT !.itinerary = [f \in FlightIds |-> @[f] \/ f \in sched]]

\* The schedules Scheduler.schedule(delegate) can return: itineraries for
\* any set of the aircraft active at the call.
Schedules(w) == SUBSET {w.aircrafts[i] : i \in DOMAIN w.aircrafts}

\* Clock.tick: advances by the tick duration, or signals EndOfDay
\* (ClockException) when advancing would pass the horizon.
ClockRaises(w) == get_seconds_after(w.now, TickDuration) > Horizon

clock_tick(w) == [w EXCEPT !.now = get_seconds_after(@, TickDuration)]

\* ------------------------------------------------------------- Simulation

\* Mutant of is_time_to_reschedule: `<` for `<=`
is_time_to_reschedule_strict(e, w) ==
    LET last_time == e.last_schedule_time
        next_time == IF last_time # None
                     THEN get_seconds_after(last_time, RescheduleCycle)
                     ELSE None
    IN  last_time = None \/ next_time < w.now

\* Simulation.__is_time_to_reschedule
is_time_to_reschedule(e, w) ==
    LET last_time == e.last_schedule_time
        next_time == IF last_time # None
                     THEN get_seconds_after(last_time, RescheduleCycle)
                     ELSE None
    IN  last_time = None \/ next_time <= w.now

\* Simulation.__reschedule
reschedule(w, sched) ==
    LET w1 == [apply_schedule(w, sched) EXCEPT !.sched_calls = @ + 1]
    IN  IF ~test_mode
        THEN [w1 EXCEPT !.analyst_rescheds = @ + 1]
        ELSE w1

\* Mutant of add_from_queue_iter: pop() for popleft(), the newest first
RECURSIVE add_from_queue_iter_lifo(_, _)
add_from_queue_iter_lifo(w, i) ==
    IF i > Len(w.gate_keys) THEN w
    ELSE LET gate == w.gate_keys[i]
             queue == w.gate_queue[gate]
         IN  IF is_occupied_at(w, gate) \/ Len(queue) = 0
             THEN add_from_queue_iter_lifo(w, i + 1)
             ELSE LET aircraft == queue[Len(queue)]
                      w1 == [w EXCEPT !.gate_queue[gate] =
                                         SubSeq(@, 1, Len(@) - 1)]
                      w2 == set_location(w1, aircraft, gate)
                      w3 == add_aircraft(w2, aircraft)
                  IN  add_from_queue_iter_lifo(w3, i + 1)

\* Mutant of add_from_queue_iter: the gate is not asked whether it is
\* occupied
RECURSIVE add_from_queue_iter_unchecked(_, _)
add_from_queue_iter_unchecked(w, i) ==
    IF i > Len(w.gate_keys) THEN w
    ELSE LET gate == w.gate_keys[i]
             queue == w.gate_queue[gate]
         IN  IF Len(queue) = 0
             THEN add_from_queue_iter_unchecked(w, i + 1)
             ELSE LET aircraft == Head(queue)
                      w1 == [w EXCEPT !.gate_queue[gate] = Tail(@)]
                      w2 == set_location(w1, aircraft, gate)
                      w3 == add_aircraft(w2, aircraft)
                  IN  add_from_queue_iter_unchecked(w3, i + 1)

\* Simulation.__add_aircrafts_from_queue, from the i-th key of the
\* gate_queue dict on (a dict iterates in the order its keys were inserted)
RECURSIVE add_from_queue_iter(_, _)
add_from_queue_iter(w, i) ==
    IF i > Len(w.gate_keys) THEN w
    ELSE LET gate == w.gate_keys[i]
             queue == w.gate_queue[gate]
         IN  IF is_occupied_at(w, gate) \/ Len(queue) = 0
             THEN add_from_queue_iter(w, i + 1)
             ELSE LET aircraft == Head(queue)
                      w1 == [w EXCEPT !.gate_queue[gate] = Tail(@)]
                      w2 == set_location(w1, aircraft, gate)
                      w3 == add_aircraft(w2, aircraft)
                  IN  add_from_queue_iter(w3, i + 1)

add_aircrafts_from_queue(w) == add_from_queue_iter(w, 1)

\* Mutant of in_window: `<` for `<=` at the lower end of the window
in_window_after_now(now, appear_time) ==
    LET next_tick_time == get_seconds_after(now, TickDuration)
    IN  now < appear_time /\ appear_time < next_tick_time

\* Mutant of in_window: `<=` for `<` at the upper end of the window
in_window_closed(now, appear_time) ==
    LET next_tick_time == get_seconds_after(now, TickDuration)
    IN  now <= appear_time /\ appear_time <= next_tick_time

\* The admission window test of Simulation.__add_aircrafts_from_scenario
in_window(now, appear_time) ==
    LET next_tick_time == get_seconds_after(now, TickDuration)
    IN  now <= appear_time /\ appear_time < next_tick_time

HasKey(w, gate) == \E k \in DOMAIN w.gate_keys : w.gate_keys[k] = gate

\* Simulation.__add_aircrafts_from_scenario, from the i-th departure on
RECURSIVE add_from_scenario_iter(_, _)
add_from_scenario_iter(w, i) ==
    IF i > Len(departures) THEN w
    ELSE LET flight == departures[i]
         IN  IF ~in_window(w.now, flight.appear_time)
             THEN add_from_scenario_iter(w, i + 1)
             ELSE LET gate == flight.from_gate
                      aircraft == flight.aircraft
                  IN  IF is_occupied_at(w, gate)
                      THEN add_from_scenario_iter(
                             [w EXCEPT !.gate_queue[gate] = Append(@, aircraft),
                                       !.gate_keys = IF HasKey(w, gate) THEN @
                                                     ELSE Append(@, gate),
                                       !.enqueued[aircraft] = @ + 1], i + 1)
                      ELSE add_from_scenario_iter(
                             add_aircraft(set_location(w, aircraft, gate), aircraft),
                             i + 1)

add_aircrafts_from_scenario(w) == add_from_scenario_iter(w, 1)

\* Mutant of add_aircrafts: the scenario is served before the queues
add_aircrafts_scenario_first(w) ==
    add_aircrafts_from_queue(add_aircrafts_from_scenario(w))

\* Simulation.__add_aircrafts
add_aircrafts(w) == add_aircrafts_from_scenario(add_aircrafts_from_queue(w))

\* Scenario.get_flight
get_flight(aircraft) ==
    departures[CHOOSE i \in DOMAIN departures : departures[i].aircraft = aircraft]

\* Mutant of to_remove_aircrafts: `==` for is_close_to
to_remove_aircrafts_exact(w) ==
    SelectSeq(w.aircrafts, LAMBDA aircraft : w.location[aircraft] = RunwayStart)

\* First loop of Simulation.__remove_aircrafts
to_remove_aircrafts(w) ==
    SelectSeq(w.aircrafts,
              LAMBDA aircraft : IsCloseTo(w.location[aircraft], RunwayStart))

\* Mutant of CompletedItinerary: the time of the next tick is recorded
CompletedItinerary_next_tick(w, aircraft) ==
    [appear_time |-> get_flight(aircraft).appear_time,
     removal_time |-> get_seconds_after(w.now, TickDuration),
     itinerary |-> w.itinerary[aircraft]]

\* CompletedItinerary(flight.appear_time, self.now, aircraft.itinerary)
CompletedItinerary(w, aircraft) ==
    [appear_time |-> get_flight(aircraft).appear_time,
     removal_time |-> w.now,
     itinerary |-> w.itinerary[aircraft]]

\* Second loop of Simulation.__remove_aircrafts
RECURSIVE remove_each(_, _)
remove_each(w, to_remove) ==
    IF to_remove = <<>> THEN w
    ELSE LET aircraft == Head(to_remove)
             w1 == [w EXCEPT !.completed_itineraries =
                       Append(@, CompletedItinerary(w, aircraft))]
         IN  remove_each(remove_aircraft(w1, aircraft), Tail(to_remove))

\* Simulation.__remove_aircrafts
remove_aircrafts(w) == remove_each(w, to_remove_aircrafts(w))

\* StateLogger.log_on_tick
log_on_tick(w) == [w EXCEPT !.logger_ticks = @ + 1]

\* Analyst.observe_on_tick
observe_on_tick(w) == [w EXCEPT !.analyst_ticks = @ + 1]

\* Analyst.save, then StateLogger.save
save_all(w) == [w EXCEPT !.analyst_saves = @ + 1, !.logger_saves = @ + 1]

\* The record of a finished call on an engine
Finished(e, call, outcome) ==
    [e EXCEPT !.calls = @ + 1,
              !.last_call = call,
              !.quiets = IF call = "quiet_tick" THEN @ + 1 ELSE @,
              !.outcome = outcome,
              !.eods = IF outcome = "EndOfDay" THEN @ + 1 ELSE @]

\* Simulation.tick up to and including admission: the reschedule, then
\* the uncertainty step (`if self.uncertainty` is false: the uncertainty of
\* every engine is None, see InitEngine and copy), then __add_aircrafts.
\* x is the measured wall-clock time of the scheduler.
tick_admit(e, w, sched, x) ==
    LET due == is_time_to_reschedule(e, w)
        w1 == IF due THEN reschedule(w, sched) ELSE w
        e1 == IF due
              THEN [e EXCEPT !.last_schedule_exec_time = x,
                             !.last_schedule_time = w.now]
              ELSE e
    IN  [e |-> e1, w |-> add_aircrafts(w1)]

\* Mutant of on_clock_exception: test mode swallows the exception with the
\* side calls
on_clock_exception_swallowed(e, w) ==
    IF ~test_mode
    THEN [e |-> Finished(e, "tick", "EndOfDay"), w |-> save_all(w)]
    ELSE [e |-> Finished(e, "tick", "returned"), w |-> w]

\* Simulation.tick, `except ClockException`: finalize unless in test mode,
\* then re-raise
on_clock_exception(e, w) ==
    [e |-> Finished(e, "tick", "EndOfDay"),
     w |-> IF ~test_mode THEN save_all(w) ELSE w]

\* Mutant of after_clock: the conflict list is not looked at
after_clock_no_abort(e, w) ==
    [e |-> Finished(e, "tick", "returned"),
     w |-> IF ~test_mode THEN observe_on_tick(w) ELSE w]

\* Mutant of after_clock: the analyst observes before the conflict check
after_clock_observe_first(e, w) ==
    LET w1 == IF ~test_mode THEN observe_on_tick(w) ELSE w
    IN  IF Cardinality(conflicts(w1)) > 0
        THEN [e |-> Finished(e, "tick", "SimulationConflict"), w |-> w1]
        ELSE [e |-> Finished(e, "tick", "returned"), w |-> w1]

\* Simulation.tick after clock.tick() returned: abort on conflict, observe
after_clock(e, w) ==
    IF Cardinality(conflicts(w)) > 0
    THEN [e |-> Finished(e, "tick", "SimulationConflict"), w |-> w]
    ELSE [e |-> Finished(e, "tick", "returned"),
          w |-> IF ~test_mode THEN observe_on_tick(w) ELSE w]

\* Mutant of tick_rest: the conflict check comes before clock.tick()
tick_rest_abort_before_clock(e, w, m) ==
    LET w3 == airport_tick(w, m)
        w4 == IF ~test_mode THEN log_on_tick(w3) ELSE w3
        w5 == remove_aircrafts(w4)
    IN  IF Cardinality(conflicts(w5)) > 0
        THEN [e |-> Finished(e, "tick", "SimulationConflict"), w |-> w5]
        ELSE IF ClockRaises(w5)
        THEN on_clock_exception(e, w5)
        ELSE after_clock(e, clock_tick(w5))

\* Mutant of tick_rest: clock.tick() is left out
tick_rest_no_clock_tick(e, w, m) ==
    LET w3 == airport_tick(w, m)
        w4 == IF ~test_mode THEN log_on_tick(w3) ELSE w3
        w5 == remove_aircrafts(w4)
    IN  after_clock(e, w5)

\* Simulation.tick from airport.tick() on
tick_rest(e, w, m) ==
    LET w3 == airport_tick(w, m)
        w4 == IF ~test_mode THEN log_on_tick(w3) ELSE w3
        w5 == remove_aircrafts(w4)
    IN  IF ClockRaises(w5)
        THEN on_clock_exception(e, w5)
        ELSE after_clock(e, clock_tick(w5))

\* Mutant of quiet_tick: the state is logged as in tick()
quiet_tick_logged(e, w, m) ==
    LET w0 == airport_tick(w, m)
        w1 == remove_aircrafts(IF ~test_mode THEN log_on_tick(w0) ELSE w0)
    IN  IF ClockRaises(w1)
        THEN [e |-> Finished(e, "quiet_tick", "EndOfDay"), w |-> w1]
        ELSE [e |-> Finished(e, "quiet_tick", "returned"), w |-> clock_tick(w1)]

\* Simulation.quiet_tick
quiet_tick(e, w, m) ==
    LET w1 == remove_aircrafts(airport_tick(w, m))
    IN  IF ClockRaises(w1)
        THEN [e |-> Finished(e, "quiet_tick", "EndOfDay"), w |-> w1]
        ELSE [e |-> Finished(e, "quiet_tick", "returned"), w |-> clock_tick(w1)]

\* ----------------------------------------------------- SimulationDelegate

\* An address of the heap that holds no object yet
FreshAddr(h) == CHOOSE a \in Addrs : h[a] = NoWorld

\* Mutant of copy: copy.copy for deepcopy, the copy shares every object the
\* simulation refers to
copy_shallow(e, h) ==
    [e |-> [e EXCEPT !.uncertainty = None,
                     !.taken_at = e.calls,
                     !.calls = 0, !.quiets = 0, !.eods = 0,
                     !.last_call = "none", !.outcome = "none"],
     heap |-> h]

\* SimulationDelegate.copy: deepcopy(self.simulation) through
\* Simulation.__getstate__ (uncertainty is None in the copy), then the
\* uncertainty given (the property takes no argument: None) and set_quiet.
\* Every object reachable from the simulation is duplicated at a fresh address.
copy(e, h) ==
    LET a == FreshAddr(h)
    IN  [e |-> [e EXCEPT !.world = a, !.uncertainty = None,
                         !.taken_at = e.calls,
                         !.calls = 0, !.quiets = 0, !.eods = 0,
                         !.last_call = "none", !.outcome = "none"],
         heap |-> [h EXCEPT ![a] = h[e.world]]]

\* ------------------------------------------------------------ Uncertainty

\* Aircraft.add_speed_uncertainty: the bias is added to the nominal speed
add_speed_uncertainty(w, aircraft, speed_bias) ==
    [w EXCEPT !.speed_bias[aircraft] = @ + speed_bias,
              !.bias_calls[aircraft] = @ + 1]

\* Mutant of happens_with_prob: `<=` for `<`
happens_with_prob_or_equal(draw, prob) == draw <= prob

\* Uncertainty.__happens_with_prob, for the value `draw` of random.random()
happens_with_prob(draw, prob) == draw < prob

\* Uncertainty.inject.__is_gate
is_gate(w, aircraft) ==
    params.at_gate /\ w.location[aircraft] \in Gates

\* Uncertainty.inject.__is_spot
is_spot(w, aircraft) ==
    params.at_spot /\ w.location[aircraft] \in Spots

\* Uncertainty.inject.__is_runway: `runway_start` is bound nowhere (the
\* assignment at line 59 is a comment), so the operand after `and` raises
\* NameError when it is evaluated
is_runway(w, aircraft) ==
    IF ~params.at_runway THEN "False" ELSE "NameError"

\* The test of lines 73-75, `or` evaluated left to right
trigger(w, aircraft) ==
    IF is_gate(w, aircraft) THEN "True"
    ELSE IF is_spot(w, aircraft) THEN "True"
    ELSE is_runway(w, aircraft)

\* The loop of Uncertainty.inject from the i-th active aircraft on; r gives
\* for each aircraft the value of random.random() and the sampled bias
RECURSIVE inject_iter(_, _, _)
inject_iter(w, i, r) ==
    IF i > Len(w.aircrafts) THEN [w |-> w, outcome |-> "returned"]
    ELSE LET aircraft == w.aircrafts[i]
         IN  IF ~happens_with_prob(r[aircraft].draw, params.prob_hold)
             THEN inject_iter(add_speed_uncertainty(w, aircraft, 0), i + 1, r)
             ELSE IF trigger(w, aircraft) = "NameError"
             THEN [w |-> w, outcome |-> "NameError"]
             ELSE IF trigger(w, aircraft) = "False"
             THEN inject_iter(w, i + 1, r)
             ELSE IF w.itinerary[aircraft]
             THEN inject_iter(
                    [add_speed_uncertainty(w, aircraft, r[aircraft].speed_bias)
                       EXCEPT !.samples[aircraft] = @ + 1], i + 1, r)
             ELSE inject_iter(w, i + 1, r)

\* Uncertainty.inject
inject(w, r) == inject_iter(w, 1, r)

\* ------------------------------------------------------------------- Init

\* Config.params["uncertainty"] with "enabled" off, as the tests set it
UncertaintyDisabled ==
    [enabled |-> FALSE, prob_hold |-> 0,
     at_gate |-> FALSE, at_spot |-> FALSE, at_runway |-> FALSE]

\* Scenario.departures: one DepartureFlight per aircraft, by appear time.
\* The gates are interchangeable, so the first flight's gate is fixed.
Scenarios ==
    {d \in [FlightIds -> [appear_time : AppearTimes, from_gate : ScenarioGates]] :
        /\ d[1].from_gate = FirstGate
        /\ \A i \in FlightIds : i > 1 => d[i - 1].appear_time <= d[i].appear_time}

\* Clock(), AirportFactory.create() and the fields of Simulation.__init__
InitWorld ==
    [now |-> 0,
     aircrafts |-> <<>>,
     location |-> [f \in FlightIds |-> Nowhere],
     itinerary |-> [f \in FlightIds |-> FALSE],
     gate_queue |-> [g \in Gates |-> <<>>],
     gate_keys |-> <<>>,
     completed_itineraries |-> <<>>,
     analyst_ticks |-> 0, analyst_rescheds |-> 0, analyst_saves |-> 0,
     logger_ticks |-> 0, logger_saves |-> 0,
     sched_calls |-> 0,
     speed_bias |-> [f \in FlightIds |-> 0],
     bias_calls |-> [f \in FlightIds |-> 0],
     samples |-> [f \in FlightIds |-> 0],
     added |-> [f \in FlightIds |-> 0],
     enqueued |-> [f \in FlightIds |-> 0],
     removed |-> [f \in FlightIds |-> 0]]

\* Simulation.__init__.  uncertainty is None: with params["uncertainty"]
\* ["enabled"] set, line 54 calls Uncertainty with one argument where its
\* __init__ takes three and the constructor raises, so every engine that
\* exists was built with uncertainty disabled.
InitEngine ==
    [world |-> 1,
     last_schedule_time |-> None,
     last_schedule_exec_time |-> None,
     uncertainty |-> None,
     taken_at |-> 0,
     calls |-> 0, quiets |-> 0, last_call |-> "none", outcome |-> "none", eods |-> 0]

Init ==
    /\ test_mode \in BOOLEAN
    /\ params = UncertaintyDisabled
    /\ \E d \in Scenarios :
          departures = [i \in FlightIds |->
                          [aircraft |-> i,
                           appear_time |-> d[i].appear_time,
                           from_gate |-> d[i].from_gate]]
    /\ heap = [a \in Addrs |-> IF a = 1 THEN InitWorld ELSE NoWorld]
    /\ engines = [n \in EngineNames |-> IF n = "sim" THEN InitEngine ELSE NoEngine]

\* ---------------------------------------------------------------- actions

World(n) == heap[engines[n].world]

\* How many more calls the model makes on engine n
MayCall(n) ==
    /\ engines[n] # NoEngine
    /\ engines[n].eods <= MaxEndTicks
    /\ n = "clone" => engines[n].calls < MaxCloneCalls

Commit(n, r) ==
    /\ engines' = [engines EXCEPT ![n] = r.e]
    /\ heap' = [heap EXCEPT ![engines[n].world] = r.w]
    /\ UNCHANGED <<test_mode, params, departures>>

\* A call of tick() on engine n
Tick(n) ==
    /\ MayCall(n)
    /\ \E sched \in Schedules(World(n)), x \in ExecTimes :
          LET a == tick_admit(engines[n], World(n), sched, x)
          IN  \E m \in PhysicsOutcomes(a.w) : Commit(n, tick_rest(a.e, a.w, m))

\* A call of quiet_tick() on engine n
QuietTick(n) ==
    /\ MayCall(n)
    /\ n = "sim" => engines[n].quiets < MaxQuietTicks
    /\ LET w == add_aircrafts(World(n))
       IN  \E m \in PhysicsOutcomes(w) : Commit(n, quiet_tick(engines[n], w, m))

\* The scheduler, handed the delegate when a reschedule is due
\* (Simulation.__reschedule), takes a snapshot of the live engine
Snapshot ==
    /\ engines["clone"] = NoEngine
    /\ engines["sim"].eods = 0
    /\ is_time_to_reschedule(engines["sim"], World("sim"))
    /\ LET r == copy(engines["sim"], heap)
       IN  /\ engines' = [engines EXCEPT !["clone"] = r.e]
           /\ heap' = r.heap
    /\ UNCHANGED <<test_mode, params, departures>>

\* A direct mutation of an engine's state by its holder:
\* aircraft.set_location(flight.runway.start) on an active aircraft
SetLocation(n) ==
    /\ MayCall(n)
    /\ \E i \in DOMAIN World(n).aircrafts :
          Commit(n, [e |-> Finished(engines[n], "set_location", "returned"),
                     w |-> set_location(World(n), World(n).aircrafts[i], RunwayStart)])

\* One engine, ticked by its driver
Next ==
    \/ Tick("sim")
    \/ QuietTick("sim")

Spec == Init /\ [][Next]_vars

\* How many more ticks the model makes on the live engine after a snapshot
SimMayContinue ==
    IF engines["clone"] = NoEngine THEN TRUE
    ELSE engines["sim"].calls - engines["clone"].taken_at < MaxTicksAfterSnapshot

\* The live engine, and a snapshot of it explored by its holder
NextSnapshot ==
    \/ SimMayContinue /\ Tick("sim")
    \/ Snapshot
    \/ Tick("clone")
    \/ QuietTick("clone")
    \/ SetLocation("clone")

SpecSnapshot == Init /\ [][NextSnapshot]_vars

\* -------------------------------------------------- a simulated day
\* The day is run the way test_add_aircrafts_all runs it: tick() is called
\* until it raises.  The scenarios of a day also have a flight that appears
\* in the middle of the day.

DayAppearTimes == AppearTimes \cup {Horizon - 3}

\* The gates are interchangeable: "G3" is used only next to "G1" and "G2"
DayScenarios ==
    {d \in [FlightIds -> [appear_time : DayAppearTimes, from_gate : Gates]] :
        /\ d[1].from_gate = FirstGate
        /\ \A i \in FlightIds : i > 1 => d[i - 1].appear_time <= d[i].appear_time
        /\ \A i \in FlightIds :
              d[i].from_gate = "G3" => \E j \in 1..(i - 1) : d[j].from_gate = "G2"}

InitDay ==
    /\ test_mode \in BOOLEAN
    /\ params = UncertaintyDisabled
    /\ \E d \in DayScenarios :
          departures = [i \in FlightIds |->
                          [aircraft |-> i,
                           appear_time |-> d[i].appear_time,
                           from_gate |-> d[i].from_gate]]
    /\ heap = [a \in Addrs |-> IF a = 1 THEN InitWorld ELSE NoWorld]
    /\ engines = [n \in EngineNames |-> IF n = "sim" THEN InitEngine ELSE NoEngine]

\* No call has raised yet
Running(n) == engines[n].outcome \in {"none", "returned"}

\* `while True: simulation.tick()`, left by the first exception
RunTick == Running("sim") /\ Tick("sim")

SpecDay == InitDay /\ [][RunTick]_vars

\* The scenarios of the days whose flights appear one after the other
StaggeredScenarios ==
    {d \in DayScenarios :
        \A i \in FlightIds : i > 1 => d[i - 1].appear_time < d[i].appear_time}

InitStaggered ==
    /\ test_mode \in BOOLEAN
    /\ params = UncertaintyDisabled
    /\ \E d \in StaggeredScenarios :
          departures = [i \in FlightIds |->
                          [aircraft |-> i,
                           appear_time |-> d[i].appear_time,
                           from_gate |-> d[i].from_gate]]
    /\ heap = [a \in Addrs |-> IF a = 1 THEN InitWorld ELSE NoWorld]
    /\ engines = [n \in EngineNames |-> IF n = "sim" THEN InitEngine ELSE NoEngine]

\* The loop does not stop calling tick() while none has raised: every
\* call returns or raises, the scheduler's included
SpecDayFair == InitStaggered /\ [][RunTick]_vars /\ WF_vars(RunTick)

\* SchedulerMock.schedule: Schedule([], [], 0.0), no itinerary for anyone
MockSchedules(w) == {{}}

\* A call of tick() on engine n whose scheduler is the SchedulerMock
TickMock(n) ==
    /\ MayCall(n)
    /\ \E sched \in MockSchedules(World(n)), x \in ExecTimes :
          LET a == tick_admit(engines[n], World(n), sched, x)
          IN  \E m \in PhysicsOutcomes(a.w) : Commit(n, tick_rest(a.e, a.w, m))

RunTickMock == Running("sim") /\ TickMock("sim")

\* test_add_aircrafts_all: the day under the SchedulerMock
SpecDayMock == InitDay /\ [][RunTickMock]_vars

\* ------------------------------------------------- one call of inject()
\* Uncertainty(prob_hold, sigma, mu).inject(simulation), called on a
\* simulation whose active aircraft stand at their gates or at the spot, with
\* or without an itinerary.

GateOf(i) ==
    IF i % 3 = 1 THEN "G1" ELSE IF i % 3 = 2 THEN "G2" ELSE "G3"

RECURSIVE ActiveSeq(_, _)
ActiveSeq(A, k) ==
    IF k = 0 THEN <<>>
    ELSE ActiveSeq(A, k - 1) \o (IF k \in A THEN <<k>> ELSE <<>>)

InjectWorlds ==
    {[InitWorld EXCEPT !.aircrafts = ActiveSeq(A, NumFlights),
                       !.location = [f \in FlightIds |->
                                       IF f \notin A THEN Nowhere
                                       ELSE IF f \in G THEN GateOf(f) ELSE "S1"],
                       !.itinerary = [f \in FlightIds |-> f \in I]] :
        A \in SUBSET FlightIds, G \in SUBSET FlightIds, I \in SUBSET FlightIds}

\* The aircraft and itineraries of w are those of active aircraft, and no two
\* aircraft stand at one gate
WellFormed(w) ==
    /\ \A f \in FlightIds : w.itinerary[f] => IsActive(w, f)
    /\ \A f, g \in FlightIds :
          (f # g /\ IsActive(w, f) /\ IsActive(w, g) /\ w.location[f] \in Gates)
             => w.location[f] # w.location[g]

InitInject ==
    /\ test_mode = TRUE
    /\ params \in [enabled : {TRUE}, prob_hold : ProbHolds,
                    at_gate : BOOLEAN, at_spot : BOOLEAN, at_runway : BOOLEAN]
    /\ departures = [i \in FlightIds |->
                       [aircraft |-> i, appear_time |-> 0, from_gate |-> GateOf(i)]]
    /\ \E w \in InjectWorlds :
          /\ WellFormed(w)
          /\ heap = [a \in Addrs |-> IF a = 1 THEN w ELSE NoWorld]
    /\ engines = [n \in EngineNames |-> IF n = "sim" THEN InitEngine ELSE NoEngine]

\* One call of inject() on the simulation
Inject ==
    /\ engines["sim"].last_call = "none"
    /\ \E r \in [{f \in FlightIds : IsActive(World("sim"), f)}
                    -> [draw : Draws, speed_bias : SpeedBiases]] :
          LET res == inject(World("sim"), r)
          IN  Commit("sim", [e |-> Finished(engines["sim"], "inject", res.outcome),
                             w |-> res.w])

SpecInject == InitInject /\ [][Inject]_vars

\* ================================================================ claims

Exists(n) == engines[n] # NoEngine

\* The step is a call `call` on engine n
Called(n, call) ==
    /\ Exists(n)
    /\ engines'[n].calls = engines[n].calls + 1
    /\ engines'[n].last_call = call

Outcome(n) == engines[n].outcome

\* C1: a tick() that does not raise EndOfDay, a tick() that fails with
\* SimulationConflict included, leaves `now` strictly greater than before,
\* and `now` never decreases.
C1_MonotonicTime ==
    [][\A n \in EngineNames : Exists(n) =>
          /\ World(n)'.now >= World(n).now
          /\ (Called(n, "tick") /\ Outcome(n)' # "EndOfDay")
                => World(n)'.now > World(n).now]_vars

\* A tick() has failed with SimulationConflict and the clock has moved on
C1_Witness ==
    /\ Outcome("sim") = "SimulationConflict"
    /\ World("sim").now >= TickDuration

\* C8 as claimed: a non-empty conflict list always makes tick() fail with
\* SimulationConflict, also on the tick on which the clock ends the day.
C8_ConflictAlwaysRaised ==
    [][\A n \in EngineNames :
          (Called(n, "tick") /\ conflicts(World(n)') # {})
             => Outcome(n)' = "SimulationConflict"]_vars

\* C8 amended: a non-empty conflict list makes tick() fail with
\* SimulationConflict unless the clock advance of that tick signals EndOfDay,
\* and then tick() raises EndOfDay and the conflict is not reported.
C8_ConflictRaisedUnlessEndOfDay ==
    [][\A n \in EngineNames :
          (Called(n, "tick") /\ conflicts(World(n)') # {})
             => IF ClockRaises(World(n))
                THEN Outcome(n)' = "EndOfDay"
                ELSE Outcome(n)' = "SimulationConflict"]_vars

\* A tick() ended in EndOfDay with two aircraft in conflict
C8_Witness ==
    /\ engines["sim"].last_call = "tick"
    /\ Outcome("sim") = "EndOfDay"
    /\ conflicts(World("sim")) # {}

\* C9: on a tick() that fails with SimulationConflict the analyst does not
\* observe the tick and nothing is finalized, while the steps before the
\* check stay applied: the reschedule is recorded, the state is logged and
\* the clock has advanced.
C9_ConflictAbortsRest ==
    [][\A n \in EngineNames :
          (Called(n, "tick") /\ Outcome(n)' = "SimulationConflict")
             => /\ World(n)'.analyst_ticks = World(n).analyst_ticks
                /\ World(n)'.analyst_saves = World(n).analyst_saves
                /\ World(n)'.logger_saves = World(n).logger_saves
                /\ World(n)'.now = World(n).now + TickDuration
                /\ World(n)'.logger_ticks =
                      World(n).logger_ticks + (IF test_mode THEN 0 ELSE 1)
                /\ is_time_to_reschedule(engines[n], World(n))
                      => /\ engines'[n].last_schedule_time = World(n).now
                         /\ World(n)'.sched_calls = World(n).sched_calls + 1]_vars

\* Outside test mode a tick() failed with SimulationConflict: its state was
\* logged and it was not observed
C9_Witness ==
    /\ Outcome("sim") = "SimulationConflict"
    /\ ~test_mode
    /\ World("sim").logger_ticks > World("sim").analyst_ticks

\* C10: when the clock advance of a tick() signals EndOfDay, tick() raises
\* EndOfDay; outside test mode the analyst and the state log have been saved
\* by then, in test mode neither has.
C10_EndOfDayPropagates ==
    [][\A n \in EngineNames :
          (Called(n, "tick") /\ ClockRaises(World(n)))
             => /\ Outcome(n)' = "EndOfDay"
                /\ World(n)'.analyst_saves =
                      World(n).analyst_saves + (IF test_mode THEN 0 ELSE 1)
                /\ World(n)'.logger_saves =
                      World(n).logger_saves + (IF test_mode THEN 0 ELSE 1)]_vars

\* In test mode a tick() raised EndOfDay and nothing was saved
C10_Witness ==
    /\ test_mode
    /\ engines["sim"].last_call = "tick"
    /\ Outcome("sim") = "EndOfDay"
    /\ World("sim").analyst_saves = 0
    /\ World("sim").logger_saves = 0

InSeq(q, f) == \E i \in DOMAIN q : q[i] = f

\* C2: gate queues are FIFO: in every step a gate's queue loses at most its
\* head, keeps the aircraft behind it in their order and takes newcomers at
\* the tail, and an aircraft waiting behind another one is not admitted into
\* the airport in that step: only the head of the queue is.
C2_QueueFIFO ==
    [][\A n \in EngineNames : Exists(n) =>
        \A g \in Gates :
           LET q == World(n).gate_queue[g]
               q2 == World(n)'.gate_queue[g]
               Admitted(f) == World(n)'.added[f] # World(n).added[f]
           IN  \E k \in {0, 1} :
                 /\ k <= Len(q)
                 /\ Len(q2) >= Len(q) - k
                 /\ SubSeq(q2, 1, Len(q) - k) = SubSeq(q, k + 1, Len(q))
                 /\ k = 1 => Admitted(q[1])
                 /\ \A j \in DOMAIN q :
                       Admitted(q[j]) => (k = 1 /\ q[j] = q[1])]_vars

\* Before any EndOfDay, A was queued at a gate and has been placed into the
\* airport from the queue while B, queued behind it, still waits there
C2_Witness ==
    /\ engines["sim"].eods = 0
    /\ \E A, B \in FlightIds :
          /\ A # B
          /\ departures[A].from_gate = departures[B].from_gate
          /\ World("sim").enqueued[A] = 1
          /\ World("sim").added[A] = 1
          /\ World("sim").enqueued[B] = 1
          /\ InSeq(World("sim").gate_queue[departures[B].from_gate], B)

\* C3: no duplicate admission: on one engine every aircraft is added to
\* airport.aircrafts at most once and enqueued at most once, and an aircraft
\* that was removed is neither active nor queued again.
C3_NoDuplicateAdmission ==
    \A f \in FlightIds :
       /\ World("sim").added[f] <= 1
       /\ World("sim").enqueued[f] <= 1
       /\ World("sim").removed[f] >= 1
             => /\ ~IsActive(World("sim"), f)
                /\ \A g \in Gates : ~InSeq(World("sim").gate_queue[g], f)

\* The step is a call of tick() or quiet_tick() on engine n
Ticked(n) == Called(n, "tick") \/ Called(n, "quiet_tick")

\* C4: removal is exact: in a tick() or quiet_tick(), an aircraft that is
\* active after admission stays active exactly when its location after the
\* physics tick is not within tolerance of the runway start, and no aircraft
\* left active is within tolerance of it.
C4_RemovalExact ==
    [][\A n \in EngineNames : Ticked(n) =>
          /\ \A f \in FlightIds :
                (IsActive(World(n), f) \/ World(n)'.added[f] # World(n).added[f])
                   => /\ IsActive(World(n)', f)
                         <=> ~IsCloseTo(World(n)'.location[f], RunwayStart)
                      /\ World(n)'.removed[f] # World(n).removed[f]
                         <=> IsCloseTo(World(n)'.location[f], RunwayStart)
          /\ \A f \in FlightIds :
                IsActive(World(n)', f)
                   => ~IsCloseTo(World(n)'.location[f], RunwayStart)]_vars

\* One aircraft was removed at a node near the runway start while another
\* one, not near it, is still active
C4_Witness ==
    \E f, g \in FlightIds :
       /\ World("sim").removed[f] = 1
       /\ World("sim").location[f] = "R_near"
       /\ IsActive(World("sim"), g)
       /\ World("sim").location[g] = "S1"

RECURSIVE SumUpTo(_, _)
SumUpTo(c, k) == IF k = 0 THEN 0 ELSE c[k] + SumUpTo(c, k - 1)

\* The number of removals so far
Removals(w) == SumUpTo(w.removed, NumFlights)

\* How many entries of log c from position k on have appear time t
RECURSIVE EntriesWith(_, _, _)
EntriesWith(c, k, t) ==
    IF k > Len(c) THEN 0
    ELSE (IF c[k].appear_time = t THEN 1 ELSE 0) + EntriesWith(c, k + 1, t)

\* How many removals of flights with appear time t the step makes
RECURSIVE RemovedWith(_, _, _, _)
RemovedWith(w, w2, k, t) ==
    IF k = 0 THEN 0
    ELSE (IF departures[k].appear_time = t
          THEN w2.removed[k] - w.removed[k] ELSE 0)
         + RemovedWith(w, w2, k - 1, t)

\* C5: the completed-itinerary log has one entry per removal; a step only
\* appends to it, one entry per aircraft it removes, with the flight's appear
\* time and, as removal time, the clock before the step advances it.
C5_CompletedLog ==
    /\ [](\A n \in EngineNames : Exists(n) =>
             Len(World(n).completed_itineraries) = Removals(World(n)))
    /\ [][\A n \in EngineNames : Exists(n) =>
            LET c == World(n).completed_itineraries
                c2 == World(n)'.completed_itineraries
            IN  /\ Len(c2) >= Len(c)
                /\ SubSeq(c2, 1, Len(c)) = c
                /\ \A k \in (Len(c) + 1)..Len(c2) :
                      c2[k].removal_time = World(n).now
                /\ \A t \in AppearTimes :
                      EntriesWith(c2, Len(c) + 1, t)
                         = RemovedWith(World(n), World(n)', NumFlights, t)]_vars

\* Two aircraft with different appear times were removed on different ticks
C5_Witness ==
    LET c == World("sim").completed_itineraries
    IN  /\ Len(c) >= 2
        /\ c[1].removal_time < c[2].removal_time
        /\ c[1].appear_time # c[2].appear_time

\* C6: snapshot isolation: taking the snapshot leaves the live engine as it
\* was and gives the clone the same state; any call on the clone, a direct
\* mutation included, leaves the live engine and every object it refers to
\* unchanged, and any tick of the live engine leaves the clone unchanged.
C6_SnapshotIsolation ==
    [][/\ (Exists("sim") /\ ~Exists("clone") /\ Exists("clone")')
             => /\ World("sim")' = World("sim")
                /\ engines'["sim"] = engines["sim"]
                /\ World("clone")' = World("sim")
       /\ \A n, o \in EngineNames :
             (/\ n # o
              /\ Exists(n) /\ Exists(o)
              /\ engines'[n].calls = engines[n].calls + 1)
                => /\ World(o)' = World(o)
                   /\ engines'[o] = engines[o]]_vars

\* The clone and the live engine have both moved on since the snapshot, and
\* differ
C6_Witness ==
    /\ Exists("clone")
    /\ engines["clone"].calls >= 1
    /\ engines["sim"].calls > engines["clone"].taken_at
    /\ World("clone").location # World("sim").location

\* C7: reschedule cadence: a tick() invokes the scheduler exactly when no
\* reschedule was recorded yet (the first tick) or at least reschedule_cycle
\* has passed since the recorded instant, and it then records its own `now`.
C7_RescheduleCadence ==
    [][\A n \in EngineNames : Called(n, "tick") =>
          LET last == engines[n].last_schedule_time
              now == World(n).now
              due == last = None \/ now - last >= RescheduleCycle
              invoked == World(n)'.sched_calls = World(n).sched_calls + 1
          IN  /\ invoked <=> due
              /\ ~invoked => World(n)'.sched_calls = World(n).sched_calls
              /\ World(n).sched_calls = 0 => invoked
              /\ engines'[n].last_schedule_time = (IF due THEN now ELSE last)]_vars

\* The scheduler ran a second time, exactly one cycle after the first
C7_Witness ==
    /\ World("sim").sched_calls = 2
    /\ engines["sim"].last_schedule_time = RescheduleCycle

\* Flight f is the first departure of the scenario at its gate
GateFirst(f) ==
    \A i \in FlightIds : i < f => departures[i].from_gate # departures[f].from_gate

\* The gate of flight f is free when the admission step of a call in state w
\* comes to f: nothing is at the gate, nothing waits for it, and no earlier
\* departure of the same window goes to it
GateFreeFor(w, f) ==
    /\ ~is_occupied_at(w, departures[f].from_gate)
    /\ w.gate_queue[departures[f].from_gate] = <<>>
    /\ \A i \in FlightIds :
          (i < f /\ in_window(w.now, departures[i].appear_time))
             => departures[i].from_gate # departures[f].from_gate

\* The step is the appear tick of g: a tick() that takes `now` past g's
\* appear time
AppearTick(n, g) ==
    /\ Called(n, "tick")
    /\ World(n).now <= departures[g].appear_time
    /\ World(n)'.now > departures[g].appear_time

\* Right after the appear tick of a flight whose gate is free, its aircraft
\* is in airport.aircrafts, located at the flight's gate
C11_AtGateAfterAppearTick ==
    \A n \in EngineNames : \A g \in FlightIds :
       (AppearTick(n, g) /\ GateFreeFor(World(n), g))
          => /\ IsActive(World(n)', g)
             /\ World(n)'.location[g] = departures[g].from_gate

\* Flights f and g are two of the flights the second half of C11 is about:
\* f appears before g, and they are the first flights at two different gates
EarlierAtOtherGate(f, g) ==
    /\ departures[f].appear_time < departures[g].appear_time
    /\ departures[f].from_gate # departures[g].from_gate
    /\ GateFirst(f) /\ GateFirst(g)

\* C11 as claimed: right after the appear tick of a flight whose gate is
\* free its aircraft is active at its gate, and once `now` has passed the
\* last appear time of flights at distinct free gates, all their aircraft
\* are active.
C11_AllActiveAfterLastAppear ==
    [][/\ C11_AtGateAfterAppearTick
       /\ \A n \in EngineNames : \A f, g \in FlightIds :
             (AppearTick(n, g) /\ EarlierAtOtherGate(f, g))
                => IsActive(World(n)', f) /\ IsActive(World(n)', g)]_vars

\* C11 amended: right after the appear tick of a flight whose gate is free
\* its aircraft is active at its gate, and once `now` has passed the last
\* appear time of flights at distinct free gates, all their aircraft have
\* been admitted: each is active, or was removed at its runway start; the
\* ones that were given no itinerary are all active at their gates.
C11_AllAdmittedAfterLastAppear ==
    [][/\ C11_AtGateAfterAppearTick
       /\ \A n \in EngineNames : \A f, g \in FlightIds :
             (AppearTick(n, g) /\ EarlierAtOtherGate(f, g))
                => /\ IsActive(World(n)', g)
                   /\ World(n)'.added[f] = 1
                   /\ IsActive(World(n)', f) \/ World(n)'.removed[f] = 1
                   /\ IsActive(World(n)', f) => World(n)'.removed[f] = 0
                   /\ ~World(n)'.itinerary[f]
                         => /\ IsActive(World(n)', f)
                            /\ World(n)'.location[f] = departures[f].from_gate]_vars

\* `now` has passed the appear times of two flights at different gates, the
\* later one in the middle of the day, and both aircraft are at their gates
C11_Witness ==
    \E f, g \in FlightIds :
       /\ EarlierAtOtherGate(f, g)
       /\ departures[g].appear_time = Horizon - 3
       /\ World("sim").now = departures[g].appear_time + TickDuration
       /\ IsActive(World("sim"), f) /\ World("sim").location[f] = departures[f].from_gate
       /\ IsActive(World("sim"), g) /\ World("sim").location[g] = departures[g].from_gate

\* The departures at gate g that are not the first one there, in the order
\* of the scenario
RECURSIVE LaterAt(_, _)
LaterAt(g, k) ==
    IF k = 0 THEN <<>>
    ELSE LaterAt(g, k - 1)
         \o (IF departures[k].from_gate = g /\ ~GateFirst(k) THEN <<k>> ELSE <<>>)

Mechanics(w) ==
    [aircrafts |-> w.aircrafts,
     location |-> w.location,
     gate_queue |-> w.gate_queue,
     completed_itineraries |-> w.completed_itineraries,
     now |-> w.now]

\* The world a tick() leaves when called on engine e in world w
AfterTick(e, w) ==
    LET a == tick_admit(e, w, {}, CHOOSE x \in ExecTimes : TRUE)
        m == CHOOSE m \in PhysicsOutcomes(a.w) : TRUE
    IN  tick_rest(a.e, a.w, m).w

Untouched(f) ==
    /\ World("sim")'.speed_bias[f] = World("sim").speed_bias[f]
    /\ World("sim")'.bias_calls[f] = World("sim").bias_calls[f]
    /\ World("sim")'.samples[f] = World("sim").samples[f]

\* inject() has applied a zero bias to aircraft f
ZeroBiasApplied(f) ==
    /\ World("sim")'.speed_bias[f] = World("sim").speed_bias[f]
    /\ World("sim")'.bias_calls[f] = World("sim").bias_calls[f] + 1
    /\ World("sim")'.samples[f] = World("sim").samples[f]

\* inject() has applied one sampled bias to aircraft f
SampledBiasApplied(f) ==
    /\ World("sim")'.samples[f] = World("sim").samples[f] + 1
    /\ World("sim")'.bias_calls[f] = World("sim").bias_calls[f] + 1
    /\ World("sim")'.speed_bias[f] - World("sim").speed_bias[f] \in SpeedBiases

\* The i-th active aircraft stands where no enabled gate or spot trigger
\* matches while at-runway is enabled
NoTriggerBeforeRunway(w, i) ==
    /\ params.at_runway
    /\ ~(params.at_gate /\ w.location[w.aircrafts[i]] \in Gates)
    /\ ~(params.at_spot /\ w.location[w.aircrafts[i]] \in Spots)

RECURSIVE AppearingAt(_, _, _)
AppearingAt(g, now, k) ==
    IF k = 0 THEN <<>>
    ELSE AppearingAt(g, now, k - 1)
         \o (IF departures[k].from_gate = g
                 /\ in_window(now, departures[k].appear_time)
              THEN <<k>> ELSE <<>>)

\* How many times the step adds aircraft f to airport.aircrafts
Additions(n, f) == World(n)'.added[f] - World(n).added[f]

\* C15: in the admission step of a tick() or quiet_tick(), a gate whose
\* queue is not empty takes no flight directly from the scenario: if the
\* gate is free, the head of its queue, and no other aircraft, is added to
\* the airport, and the flights for the gate that appear in this tick are
\* appended to the tail of the queue in scenario order; if the gate is
\* occupied nothing is added for it and the appearing flights are appended.
C15_QueueBeforeScenario ==
    [][\A n \in EngineNames : Ticked(n) =>
          \A g \in Gates :
             LET w == World(n)
                 q == w.gate_queue[g]
                 new == AppearingAt(g, w.now, NumFlights)
             IN  q # <<>> =>
                    IF is_occupied_at(w, g)
                    THEN /\ World(n)'.gate_queue[g] = q \o new
                         /\ \A f \in FlightIds :
                               departures[f].from_gate = g => Additions(n, f) = 0
                    ELSE /\ World(n)'.gate_queue[g] = Tail(q) \o new
                         /\ \A f \in FlightIds :
                               departures[f].from_gate = g
                                  => Additions(n, f) = (IF f = Head(q) THEN 1 ELSE 0)]_vars

\* Gate G was freed while B waited for it; on the tick on which C appeared
\* for G, B was placed at G from the queue and C was queued behind it
C15_Witness ==
    \E B, C \in FlightIds :
       LET w == World("sim")
           g == departures[C].from_gate
       IN  /\ B # C
           /\ departures[B].from_gate = g
           /\ departures[C].appear_time = Horizon - 3
           /\ w.now = departures[C].appear_time
                        - (departures[C].appear_time % TickDuration) + TickDuration
           /\ w.enqueued[B] = 1 /\ w.added[B] = 1
           /\ IsActive(w, B) /\ w.location[B] = g
           /\ w.gate_queue[g] = <<C>>
           /\ w.added[C] = 0

\* The step places at most one aircraft at gate g
AtMostOneAdditionAt(n, g) ==
    /\ \A f \in FlightIds : departures[f].from_gate = g => Additions(n, f) <= 1
    /\ Cardinality({f \in FlightIds :
                       departures[f].from_gate = g /\ Additions(n, f) > 0}) <= 1

\* C16: a tick() or quiet_tick() places at most one aircraft at any gate,
\* and it appends an aircraft to a gate's queue only when the gate is
\* occupied at that moment: it was occupied before the step, or the step
\* has placed there the head of the queue or an earlier flight of the
\* scenario; and two different active aircraft are never at the same gate.
C16_OnePerGate ==
    /\ [][\A n \in EngineNames : Ticked(n) =>
             LET w == World(n)
             IN  /\ \A g \in Gates : AtMostOneAdditionAt(n, g)
                 /\ \A f \in FlightIds :
                       World(n)'.enqueued[f] # w.enqueued[f] =>
                          LET g == departures[f].from_gate
                              q == w.gate_queue[g]
                          IN  \/ is_occupied_at(w, g)
                              \/ \E x \in FlightIds :
                                    /\ departures[x].from_gate = g
                                    /\ Additions(n, x) = 1
                                    /\ \/ q # <<>> /\ x = Head(q)
                                       \/ x < f /\ in_window(w.now, departures[x].appear_time)]_vars
    /\ [](\A n \in EngineNames : Exists(n) =>
             \A f, g \in FlightIds :
                (/\ f # g
                 /\ IsActive(World(n), f) /\ IsActive(World(n), g)
                 /\ World(n).location[f] \in Gates)
                   => World(n).location[f] # World(n).location[g])

\* Two flights appeared for one gate in the same tick: the first was placed
\* at the gate and the second was queued
C16_Witness ==
    \E f, g \in FlightIds :
       LET w == World("sim")
       IN  /\ f < g
           /\ departures[f].from_gate = departures[g].from_gate
           /\ departures[f].appear_time = 1 /\ departures[g].appear_time = 1
           /\ w.now = TickDuration
           /\ w.added[f] = 1 /\ w.enqueued[f] = 0
           /\ IsActive(w, f) /\ w.location[f] = departures[f].from_gate
           /\ w.enqueued[g] = 1 /\ w.added[g] = 0
           /\ w.gate_queue[departures[g].from_gate] = <<g>>

\* The last call on engine n was a tick() that raised EndOfDay
Ended(n) ==
    /\ Exists(n)
    /\ engines[n].last_call = "tick"
    /\ Outcome(n) = "EndOfDay"

\* C17: the ended state is terminal: a tick() or quiet_tick() called after
\* a tick() has raised EndOfDay leaves the aircraft, the gate queues, the
\* completed itineraries and the clock unchanged, runs no reschedule and
\* does not finalize a second time.
C17_EndedIsTerminal ==
    [][\A n \in EngineNames : (Ended(n) /\ Ticked(n)) =>
          /\ Mechanics(World(n)') = Mechanics(World(n))
          /\ World(n)'.sched_calls = World(n).sched_calls
          /\ World(n)'.analyst_saves = World(n).analyst_saves
          /\ World(n)'.logger_saves = World(n).logger_saves]_vars

\* Aircraft f matches at least one enabled trigger: at a gate with at-gate
\* enabled, at a spot with at-spot enabled, or with its next location within
\* tolerance of its runway start with at-runway enabled
MatchesTrigger(w, f) ==
    \/ params.at_gate /\ w.location[f] \in Gates
    \/ params.at_spot /\ w.location[f] \in Spots
    \/ params.at_runway /\ IsCloseTo(NextLocation(f, w.location[f]), RunwayStart)

\* C18: inject() completes normally for every combination of the three
\* toggles; an active aircraft with an itinerary whose probability draw
\* passes (every aircraft, at hold probability 1.0) gets one sampled speed
\* bias exactly when it matches an enabled trigger and is left untouched
\* otherwise; whatever the draw, an aircraft gets a sampled bias only when it
\* has an itinerary and matches an enabled trigger.
C18_TriggerDecidesBias ==
    [][Called("sim", "inject") =>
         LET w == World("sim")
         IN  /\ Outcome("sim")' = "returned"
             /\ \A f \in FlightIds :
                   World("sim")'.samples[f] # w.samples[f]
                      => IsActive(w, f) /\ w.itinerary[f] /\ MatchesTrigger(w, f)
             /\ params.prob_hold = 100
                   => \A f \in FlightIds :
                         (IsActive(w, f) /\ w.itinerary[f])
                            => IF MatchesTrigger(w, f)
                               THEN SampledBiasApplied(f)
                               ELSE Untouched(f)]_vars

\* How many entries of sequence q are aircraft f
RECURSIVE Count(_, _)
Count(q, f) ==
    IF q = <<>> THEN 0
    ELSE (IF Head(q) = f THEN 1 ELSE 0) + Count(Tail(q), f)

\* The place of the aircraft of flight f in world w: 0 not yet appeared,
\* 1 waiting in the queue of its gate, 2 in airport.aircrafts, 3 removed;
\* -1 when it is in none or in more than one of them
Place(w, f) ==
    LET queued == Count(w.gate_queue[departures[f].from_gate], f)
        elsewhere == \E g \in Gates :
                        g # departures[f].from_gate /\ InSeq(w.gate_queue[g], f)
        active == Count(w.aircrafts, f)
    IN  IF elsewhere THEN -1
        ELSE IF queued = 0 /\ active = 0 /\ w.removed[f] = 0
                /\ w.added[f] = 0 /\ w.enqueued[f] = 0 THEN 0
        ELSE IF queued = 1 /\ active = 0 /\ w.removed[f] = 0 THEN 1
        ELSE IF queued = 0 /\ active = 1 /\ w.removed[f] = 0 THEN 2
        ELSE IF queued = 0 /\ active = 0 /\ w.removed[f] = 1
                /\ Len(w.completed_itineraries) = Removals(w) THEN 3
        ELSE -1

\* C19: between ticks every flight's aircraft is in exactly one of four
\* places: not yet appeared, waiting in the queue of its own gate, in
\* airport.aircrafts, or removed with a completed itinerary; a flight whose
\* appear time lies in a window already elapsed is queued, active or
\* removed; and an aircraft only moves forward: from not yet appeared to
\* queued or active, from queued to active, from active to removed.
C19_LifecyclePartition ==
    /\ [](\A n \in EngineNames : Exists(n) =>
             \A f \in FlightIds :
                /\ Place(World(n), f) \in 0..3
                /\ departures[f].appear_time < World(n).now
                      => Place(World(n), f) \in 1..3)
    /\ [][\A n \in EngineNames : (Exists(n) /\ Exists(n)') =>
             \A f \in FlightIds :
                LET p == Place(World(n), f)
                    p2 == Place(World(n)', f)
                IN  \/ p2 = p
                    \/ p = 0 /\ p2 \in {1, 2}
                    \/ p = 1 /\ p2 = 2
                    \/ p = 2 /\ p2 = 3]_vars

\* The number of tick() calls a day takes: one per tick duration up to the
\* horizon, and the one that raises
DayTicks == (Horizon \div TickDuration) + 1

\* C20: termination: when tick() is called again and again, the calls that
\* return each advance the clock by the tick duration, and after finitely
\* many calls, at most one per tick duration of the day and one more, a
\* call raises EndOfDay, unless one has failed with SimulationConflict before.
C20_EndOfDayReached ==
    /\ <>(Outcome("sim") = "EndOfDay" \/ Outcome("sim") = "SimulationConflict")
    /\ [](/\ engines["sim"].calls <= DayTicks
          /\ Running("sim")
                => World("sim").now = engines["sim"].calls * TickDuration
          /\ Outcome("sim") = "EndOfDay" => engines["sim"].calls = DayTicks)

\* The last of the day's calls of tick() has raised EndOfDay
C20_Witness ==
    /\ engines["sim"].last_call = "tick"
    /\ Outcome("sim") = "EndOfDay"
    /\ engines["sim"].calls = DayTicks
    /\ World("sim").now + TickDuration > Horizon

====
